---- MODULE Spec2Model ----
(***************************************************************************)
(* Cramer's-rule solver of A.X = B: the determinant engine calcDet, the    *)
(* sequential solver linearSolveSeq and the fork-based solver              *)
(* linearSolvePar of project2_AI.c / project2_Human.c.                     *)
(*                                                                         *)
(* A double is modelled by an exact rational <<p, q>> (q > 0, lowest       *)
(* terms).  The inputs are small integers, as main() draws them with       *)
(* rand() % 10, so every input is exactly representable.                   *)
(*                                                                         *)
(* A process's address space is a function from object names to values;    *)
(* fork() hands the child a private copy of the parent's address space.    *)
(***************************************************************************)
EXTENDS Integers, Sequences, FiniteSets

VARIABLES
    variant,   \* which source file is running: "AI" or "Human"
    n,         \* the dimension handed to the solvers
    junk,      \* the content malloc'ed memory happens to have
    mem,       \* address space of the calling process (the coordinator)
    pc,        \* position of the calling process
    seqVec,    \* the output vector argument of the linearSolveSeq call
    parVec,    \* the output vector argument of the linearSolvePar call
    detA,      \* the solver's local detA / mainDet
    i,         \* loop counter of the solver's for loop over the variables
    w,         \* loop counter of linearSolvePar's wait loop
    procs,     \* the child processes forked so far, in fork order
    stdout     \* what the solvers have printed

vars == <<variant, n, junk, mem, pc, seqVec, parVec, detA, i, w, procs, stdout>>

(* Bounds of the model *)
MaxDim == 2
MaxVal == 2
MaxDetDim == 3

(* Program constants *)
LIMIT_PROC == 8
EPS_DEN == 1000000000

NULL == <<>>

-----------------------------------------------------------------------------
(* double arithmetic, over exact rationals *)

Abs(x) == IF x < 0 THEN -x ELSE x

RECURSIVE GCD(_, _)
GCD(a, b) == IF b = 0 THEN a ELSE GCD(b, a % b)

Norm(p, q) ==
    LET s == IF q < 0 THEN -1 ELSE 1
        g == GCD(Abs(p), Abs(q))
    IN  <<(s * p) \div g, (s * q) \div g>>

Zero == <<0, 1>>
One == <<1, 1>>
Num(v) == <<v, 1>>

RSub(x, y) == Norm(x[1] * y[2] - y[1] * x[2], x[2] * y[2])
RAdd(x, y) == Norm(x[1] * y[2] + y[1] * x[2], x[2] * y[2])
RMul(x, y) == Norm(x[1] * y[1], x[2] * y[2])
RDiv(x, y) == Norm(x[1] * y[2], x[2] * y[1])

\* fabs(x) < 1e-9, i.e. |p| * 10^9 < q
NearZero(x) == (x[2] - 1) \div EPS_DEN >= Abs(x[1])

-----------------------------------------------------------------------------
(* Matrix memory management *)

\* an array of dim elements, as a tuple
Array(f, dim) == IF dim < 1 THEN <<>> ELSE SubSeq(f, 1, dim)

makeGrid(dim) ==
    Array([r \in 1..dim |-> Array([c \in 1..dim |-> junk], dim)], dim)

destroyGrid(m, grid, dim) == [m EXCEPT ![grid] = NULL]

\* the tampered copy: source and destination exchanged
cloneGridSwapped(m, src, dest, dim) ==
    [m EXCEPT ![src] =
        Array([r \in 1..dim |-> Array([c \in 1..dim |-> m[dest][r][c]], dim)], dim)]

\* for r, c < dim: dest[r][c] = src[r][c]
cloneGrid(m, src, dest, dim) ==
    [m EXCEPT ![dest] =
        Array([r \in 1..dim |-> Array([c \in 1..dim |-> m[src][r][c]], dim)], dim)]

swapColumn(m, grid, vec, colIndex, dim) ==
    [m EXCEPT ![grid] =
        Array([r \in 1..dim |-> [m[grid][r] EXCEPT ![colIndex] = m[vec][r]]], dim)]

-----------------------------------------------------------------------------
(* Determinant calculation *)

\* for (k = 0; k < dim; k++) grid[j][k] -= factor * grid[i][k];
\* (a factor of 0 subtracts 0 from every entry of the row)
elimRow(g, pi, j, dim) ==
    LET factor == RDiv(g[j][pi], g[pi][pi])
    IN  IF factor = Zero THEN g
        ELSE [g EXCEPT ![j] =
                Array([k \in 1..dim |-> RSub(g[j][k], RMul(factor, g[pi][k]))], dim)]

\* for (j = i + 1; j < dim; j++) ...
RECURSIVE elimBelow(_, _, _, _)
elimBelow(g, pi, j, dim) ==
    IF j > dim THEN g
    ELSE elimBelow(elimRow(g, pi, j, dim), pi, j + 1, dim)

\* the tampered pivot loop: a near-zero pivot returns the running product
RECURSIVE detLoopKeepsProduct(_, _, _, _)
detLoopKeepsProduct(g, pi, dim, result) ==
    IF pi > dim THEN [det |-> result, grid |-> g]
    ELSE IF NearZero(g[pi][pi]) THEN [det |-> result, grid |-> g]
    ELSE LET g2 == elimBelow(g, pi, pi + 1, dim)
         IN  detLoopKeepsProduct(g2, pi + 1, dim, RMul(result, g2[pi][pi]))

\* for (i = 0; i < dim; i++) { pivot test; eliminate; result *= grid[i][i]; }
RECURSIVE detLoop(_, _, _, _)
detLoop(g, pi, dim, result) ==
    IF pi > dim THEN [det |-> result, grid |-> g]
    ELSE IF NearZero(g[pi][pi]) THEN [det |-> Zero, grid |-> g]
    ELSE LET g2 == elimBelow(g, pi, pi + 1, dim)
         IN  detLoop(g2, pi + 1, dim, RMul(result, g2[pi][pi]))

\* calcDet eliminates in place: it yields the value and the memory it leaves
calcDet(m, grid, dim) ==
    LET r == detLoop(m[grid], 1, dim, One)
    IN  [det |-> r.det, mem |-> [m EXCEPT ![grid] = r.grid]]

-----------------------------------------------------------------------------
(* The driver: main() allocates A, B and the output vector and fills A and *)
(* B with rand() % 10.  "X" and "Y" are two allocated output vectors.      *)

Ints(lo, hi) == {Num(v) : v \in lo..hi}

SysOver(d, V) ==
    {[n |-> d, A |-> a, B |-> b] : a \in [1..d -> [1..d -> V]], b \in [1..d -> V]}

Systems ==
    UNION {SysOver(d, Ints(0, 1)) : d \in 0..MaxDim}
    \cup UNION {SysOver(d, Ints(0, MaxVal)) : d \in 1..2}

Garbage == {Num(7), <<-3, 2>>}

Variants == {"AI", "Human"}

Vectors == {"X", "Y"}

InitWith(s, g, f) ==
    /\ variant = f
    /\ n = s.n
    /\ junk = g
    /\ mem = [A |-> s.A, B |-> s.B,
              X |-> [k \in 1..s.n |-> g], Y |-> [k \in 1..s.n |-> g],
              tmp |-> NULL, local |-> NULL]
    /\ pc = "idle"
    /\ seqVec = "X"
    /\ parVec = "X"
    /\ detA = NULL
    /\ i = 1
    /\ w = 1
    /\ procs = <<>>
    /\ stdout = <<>>

Init == \E s \in Systems, g \in Garbage, f \in Variants : InitWith(s, g, f)

-----------------------------------------------------------------------------
(* Sequential Cramer solver *)

\* tmp = makeGrid(n); cloneGrid(A, tmp, n); detA = calcDet(tmp, n); destroyGrid
mainDet(m) ==
    LET m1 == [m EXCEPT !["tmp"] = makeGrid(n)]
        m2 == cloneGrid(m1, "A", "tmp", n)
        r  == calcDet(m2, "tmp", n)
    IN  [det |-> r.det, mem |-> destroyGrid(r.mem, "tmp", n)]

\* one pass of the loop body: grid = makeGrid; cloneGrid(A, grid); swapColumn;
\* X[var] = calcDet(grid) / detA; destroyGrid(grid)
solveVar(m, grid, solVec, var, d) ==
    LET m1 == [m EXCEPT ![grid] = makeGrid(n)]
        m2 == cloneGrid(m1, "A", grid, n)
        m3 == swapColumn(m2, grid, "B", var, n)
        r  == calcDet(m3, grid, n)
        m4 == [r.mem EXCEPT ![solVec][var] = RDiv(r.det, d)]
    IN  destroyGrid(m4, grid, n)

noUniqueSolution ==
    IF variant = "Human" THEN Append(stdout, "No unique solution") ELSE stdout

SeqBegin ==
    /\ pc = "idle"
    /\ LET r == mainDet(mem) IN mem' = r.mem /\ detA' = r.det
    /\ seqVec' = "X"
    /\ i' = 1
    /\ pc' = "seq_check"
    /\ UNCHANGED <<variant, n, junk, parVec, w, procs, stdout>>

SeqSingular ==
    /\ pc = "seq_check"
    /\ detA = Zero
    /\ stdout' = noUniqueSolution
    /\ pc' = "seq_done"
    /\ UNCHANGED <<variant, n, junk, mem, seqVec, parVec, detA, i, w, procs>>

SeqNonSingular ==
    /\ pc = "seq_check"
    /\ detA # Zero
    /\ pc' = "seq_loop"
    /\ UNCHANGED <<variant, n, junk, mem, seqVec, parVec, detA, i, w, procs, stdout>>

SeqIter ==
    /\ pc = "seq_loop"
    /\ i <= n
    /\ mem' = solveVar(mem, "tmp", seqVec, i, detA)
    /\ i' = i + 1
    /\ UNCHANGED <<variant, n, junk, pc, seqVec, parVec, detA, w, procs, stdout>>

SeqReturn ==
    /\ pc = "seq_loop"
    /\ i > n
    /\ pc' = "seq_done"
    /\ UNCHANGED <<variant, n, junk, mem, seqVec, parVec, detA, i, w, procs, stdout>>

-----------------------------------------------------------------------------
(* Parallel Cramer solver *)

ParBegin(v) ==
    /\ pc = "seq_done"
    /\ LET r == mainDet(mem) IN mem' = r.mem /\ detA' = r.det
    /\ parVec' = v
    /\ i' = 1
    /\ pc' = "par_check"
    /\ UNCHANGED <<variant, n, junk, seqVec, w, procs, stdout>>

ParSingular ==
    /\ pc = "par_check"
    /\ detA = Zero
    /\ stdout' = noUniqueSolution
    /\ pc' = "par_done"
    /\ UNCHANGED <<variant, n, junk, mem, seqVec, parVec, detA, i, w, procs>>

ParNonSingular ==
    /\ pc = "par_check"
    /\ detA # Zero
    /\ pc' = "par_fork"
    /\ UNCHANGED <<variant, n, junk, mem, seqVec, parVec, detA, i, w, procs, stdout>>

\* fork() in the parent: the child starts with a copy of the parent's memory
\* and of its locals (var, mainDet)
Fork ==
    /\ pc = "par_fork"
    /\ i <= n
    /\ procs' = Append(procs, [var |-> i, state |-> "running", status |-> "none",
                               mem |-> mem, detA |-> detA])
    /\ i' = i + 1
    /\ UNCHANGED <<variant, n, junk, mem, pc, seqVec, parVec, detA, w, stdout>>

ForkLoopEnd ==
    /\ pc = "par_fork"
    /\ i > n
    /\ w' = 1
    /\ pc' = "par_wait"
    /\ UNCHANGED <<variant, n, junk, mem, seqVec, parVec, detA, i, procs, stdout>>

\* the body of the child: it computes in its own memory and calls exit(0);
\* mem is kept as the image the process had when it exited
ChildRun(k) ==
    /\ k \in 1..Len(procs)
    /\ procs[k].state = "running"
    /\ procs' = [procs EXCEPT
                   ![k].mem = solveVar(procs[k].mem, "local", parVec,
                                       procs[k].var, procs[k].detA),
                   ![k].state = "zombie",
                   ![k].status = "exit0"]
    /\ UNCHANGED <<variant, n, junk, mem, pc, seqVec, parVec, detA, i, w, stdout>>

\* wait(NULL): blocks until some child has terminated, reaps it, drops its status
Wait ==
    /\ pc = "par_wait"
    /\ w <= n
    /\ \E k \in 1..Len(procs) :
          /\ procs[k].state = "zombie"
          /\ procs' = [procs EXCEPT ![k].state = "reaped"]
    /\ w' = w + 1
    /\ UNCHANGED <<variant, n, junk, mem, pc, seqVec, parVec, detA, i, stdout>>

\* the tampered wait loop: it stops one wait short
ParReturnEarly ==
    /\ pc = "par_wait"
    /\ w >= n
    /\ pc' = "par_done"
    /\ UNCHANGED <<variant, n, junk, mem, seqVec, parVec, detA, i, w, procs, stdout>>

ParReturn ==
    /\ pc = "par_wait"
    /\ w > n
    /\ pc' = "par_done"
    /\ UNCHANGED <<variant, n, junk, mem, seqVec, parVec, detA, i, w, procs, stdout>>

Next ==
    \/ SeqBegin
    \/ SeqSingular
    \/ SeqNonSingular
    \/ SeqIter
    \/ SeqReturn
    \/ \E v \in Vectors : ParBegin(v)
    \/ ParSingular
    \/ ParNonSingular
    \/ Fork
    \/ ForkLoopEnd
    \/ \E k \in 1..Len(procs) : ChildRun(k)
    \/ Wait
    \/ ParReturn

Spec == Init /\ [][Next]_vars

-----------------------------------------------------------------------------
(* The environment's faults: fork() can fail and a child can be killed.    *)

\* fork() returns -1: neither branch of "fork() == 0" runs a child
ForkFail ==
    /\ pc = "par_fork"
    /\ i <= n
    /\ i' = i + 1
    /\ UNCHANGED <<variant, n, junk, mem, pc, seqVec, parVec, detA, w, procs, stdout>>

\* a child is killed before it has computed anything
Crash(k) ==
    /\ k \in 1..Len(procs)
    /\ procs[k].state = "running"
    /\ procs' = [procs EXCEPT ![k].state = "zombie", ![k].status = "killed"]
    /\ UNCHANGED <<variant, n, junk, mem, pc, seqVec, parVec, detA, i, w, stdout>>

\* wait(NULL) with no child left returns -1 at once
WaitNoChild ==
    /\ pc = "par_wait"
    /\ w <= n
    /\ \A k \in 1..Len(procs) : procs[k].state = "reaped"
    /\ w' = w + 1
    /\ UNCHANGED <<variant, n, junk, mem, pc, seqVec, parVec, detA, i, procs, stdout>>

NextFault ==
    \/ Next
    \/ ForkFail
    \/ \E k \in 1..Len(procs) : Crash(k)
    \/ WaitNoChild

SpecFault == Init /\ [][NextFault]_vars

-----------------------------------------------------------------------------
(* Systems with more variables than LIMIT_PROC *)

Diag(d, v) == [r \in 1..d |-> [c \in 1..d |-> IF r = c THEN Num(v) ELSE Zero]]

BigSystems ==
    {[n |-> LIMIT_PROC + 1, A |-> Diag(LIMIT_PROC + 1, v),
      B |-> [k \in 1..(LIMIT_PROC + 1) |-> One]] : v \in 0..1}

InitBig == \E s \in BigSystems : InitWith(s, Num(7), "Human")

SpecBig == InitBig /\ [][Next]_vars

-----------------------------------------------------------------------------
(* The determinant engine on its own: calcDet applied to a grid in "tmp",  *)
(* of which "A" keeps the content before the call.                         *)

Grids ==
    UNION {[1..d -> [1..d -> Ints(0, 1)]] : d \in 1..MaxDetDim}
    \cup UNION {[1..d -> [1..d -> Ints(-MaxVal, MaxVal)]] : d \in 1..2}

InitDet ==
    \E g \in Grids :
        /\ variant = "AI"
        /\ n = Len(g)
        /\ junk = Zero
        /\ mem = [A |-> g, B |-> NULL, X |-> NULL, Y |-> NULL,
                  tmp |-> g, local |-> NULL]
        /\ pc = "idle"
        /\ seqVec = "X"
        /\ parVec = "X"
        /\ detA = NULL
        /\ i = 1
        /\ w = 1
        /\ procs = <<>>
        /\ stdout = <<>>

DetCall ==
    /\ pc = "idle"
    /\ LET r == calcDet(mem, "tmp", n) IN mem' = r.mem /\ detA' = r.det
    /\ pc' = "det_done"
    /\ UNCHANGED <<variant, n, junk, seqVec, parVec, i, w, procs, stdout>>

SpecDet == InitDet /\ [][DetCall]_vars

-----------------------------------------------------------------------------
(* Properties *)

Returned == pc \in {"seq_done", "par_done"}

\* the value the child at position k of procs left in its own X[var]
WorkerValue(k) == procs[k].mem[parVec][procs[k].var]

RECURSIVE Dot(_, _, _)
Dot(row, x, k) ==
    IF k = 0 THEN Zero ELSE RAdd(Dot(row, x, k - 1), RMul(row[k], x[k]))

Outstanding == Cardinality({k \in 1..Len(procs) : procs[k].state # "reaped"})

\* the indices whose worker did not run to exit(0): killed, or never forked
Abnormal ==
    {j \in 1..n : ~ \E k \in 1..Len(procs) :
                       procs[k].var = j /\ procs[k].status = "exit0"}

\* linearSolvePar returns void and reaps with wait(NULL), which drops the exit
\* status: it tells its caller of no failed index
reportedFailed == {}

\* the only word a solver has for "singular" is the line it prints
singularReported ==
    \E k \in 1..Len(stdout) : stdout[k] = "No unique solution"

Untouched(vec) == \A k \in 1..n : mem[vec][k] = junk

HasZeroRow(g) == \E r \in 1..Len(g) : \A c \in 1..Len(g) : g[r][c] = Zero

HasEqualRows(g) == \E r1, r2 \in 1..Len(g) : r1 # r2 /\ g[r1] = g[r2]

\* C1: once linearSolvePar has returned on a non-singular system, the
\* coordinator's X[i] is the value worker i computed, for every i, whatever
\* X held before the call.
C1_CoordinatorHoldsWorkerValues ==
    (pc = "par_done" /\ detA # Zero) =>
        \A k \in 1..Len(procs) :
            mem[parVec][procs[k].var] = WorkerValue(k)

\* C2: on a non-singular system, linearSolveSeq and linearSolvePar, each
\* given its own freshly allocated output vector, leave the same X.
C2_SeqAndParAgree ==
    (pc = "par_done" /\ detA # Zero /\ seqVec # parVec) =>
        mem[seqVec] = mem[parVec]

\* C3: when linearSolveSeq has computed a solution (detA non-zero), the X
\* it returns satisfies A * X = B in every row.
C3_RoundTrip ==
    (pc = "seq_done" /\ detA # Zero) =>
        \A r \in 1..n : Dot(mem["A"][r], mem[seqVec], n) = mem["B"][r]

\* C4: the number of workers spawned and not yet reaped never exceeds
\* LIMIT_PROC, also when n is larger than LIMIT_PROC.
C4_AtMostLimitProcOutstanding == Outstanding <= LIMIT_PROC

\* C5: when a worker ends abnormally during a parallel solve of a
\* non-singular system, exactly its index is reported as failed and every
\* other X[j] is the computed detAj / detA.
C5_FailedIndexReported ==
    (pc = "par_done" /\ detA # Zero) =>
        /\ reportedFailed = Abnormal
        /\ \A k \in 1..Len(procs) :
              procs[k].status = "exit0" =>
                  mem[parVec][procs[k].var] = WorkerValue(k)

\* C6: when calcDet on the clone of A returns 0, the solver reports the
\* outcome as singular, writes no entry of X, and (parallel solver) spawns
\* no worker.
C6_SingularReported ==
    (Returned /\ detA = Zero) =>
        /\ singularReported
        /\ Untouched(IF pc = "seq_done" THEN seqVec ELSE parVec)
        /\ procs = <<>>

\* C7: a solve called with n <= 0 is rejected before any determinant is
\* computed or any worker spawned, and never returns as a computed solution.
\* (The solvers have no error result: their only way back is the return.)
C7_InvalidInputRejected ==
    n <= 0 => (detA = NULL /\ procs = <<>> /\ ~Returned)

\* C8: calcDet returns 0 for every n x n matrix, n >= 1, with an all-zero
\* row or two identical rows.
C8_DegenerateRowsGiveZero ==
    (pc = "det_done" /\ n >= 1 /\ (HasZeroRow(mem["A"]) \/ HasEqualRows(mem["A"])))
        => detA = Zero

C8_Witness ==
    /\ pc = "det_done"
    /\ n = 3
    /\ mem["A"][1] = mem["A"][3]
    /\ mem["A"][1] # mem["A"][2]
    /\ ~HasZeroRow(mem["A"])
    /\ mem["tmp"] # mem["A"]
    /\ detA = Zero

\* C9: no step of linearSolveSeq or linearSolvePar changes the caller's
\* coefficient matrix A or constants vector B, so both are at return what
\* they were before the call.
C9_InputsNotMutated ==
    [][mem'["A"] = mem["A"] /\ mem'["B"] = mem["B"]]_vars

C9_Witness ==
    /\ pc = "par_done"
    /\ detA # Zero
    /\ n = 2
    /\ mem["A"][2][1] # Zero
    /\ mem["X"] # mem["Y"]

\* C10: for a non-singular system of dimension n, linearSolvePar forks
\* exactly n workers, the k-th for variable k, and returns only when every
\* one of them has terminated and been reaped; workers never fork.
C10_AllWorkersReaped ==
    /\ \A k \in 1..Len(procs) : procs[k].var = k
    /\ (pc = "par_done" /\ detA # Zero /\ n >= 1) =>
          /\ Len(procs) = n
          /\ \A k \in 1..n : procs[k].state = "reaped" /\ procs[k].status = "exit0"

C10_Witness ==
    /\ pc = "par_done"
    /\ detA # Zero
    /\ Len(procs) = 2
    /\ Outstanding = 0

====
